---- MODULE Spec2Model ----
(***************************************************************************)
(* Parallel odd-even transposition sort over MPI (mpi_odd_even.c) and its  *)
(* file-driven variant (exercise 7).  Every MPI process is a worker with   *)
(* its own program counter; MPI_Sendrecv is a posted send plus a posted    *)
(* receive that both have to complete before the call returns.             *)
(***************************************************************************)
EXTENDS Integers, Sequences, FiniteSets, Bags, TLC

\* ------------------------------------------------------------------ bounds
MaxP == 4
MaxGlobalN == 6
MaxVal == 1
NumRuns == 2

\* ------------------------------------------------------- program constants
MPI_PROC_NULL == -2
Indeterminate == -1

VARIABLES
  p,             \* MPI_Comm_size: the number of processes
  global_n,      \* the global list length
  eager,         \* TRUE: the library buffers a standard-mode send
  seedList,      \* what random() yields after srandom(my_rank + 1)
  pc,            \* where each process is
  run,           \* main's loop counter i
  local_n,
  local_A,
  temp_B,
  temp_C,
  heap,          \* per process, the state of the temp_B / temp_C allocations
  even_partner,
  odd_partner,
  phase,
  chan,          \* messages in flight, per (source, destination), tag 0
  recvDone,      \* the receive half of the pending MPI_Sendrecv has completed
  nsent,         \* messages sent by the current call of Sort
  nrecv,         \* messages received by the current call of Sort
  bcount,        \* MPI_Barrier calls entered
  rcount,        \* MPI_Reduce calls entered
  fileExists,    \* the input file can be opened
  fileData,      \* the ints in the input file
  nullAlloc,     \* <<w, "B">> or <<w, "C">>: the malloc that returns NULL
  global_A,      \* rank 0's global list
  scat,          \* MPI_Scatter: the blocks on their way to each rank
  gath,          \* MPI_Gather: the blocks on their way to rank 0
  reports,       \* error messages printed
  local_ok,      \* what the process last passed to Check_for_error
  ok,            \* what MPI_Allreduce last gave the process
  acount,        \* MPI_Allreduce calls entered
  reduced,       \* per MPI_Allreduce call, the MPI_MIN of what has come in
  gcount         \* MPI_Allgather calls entered

env == <<p, global_n, eager, seedList, fileExists, fileData, nullAlloc>>
fileVars == <<global_A, scat, gath, reports>>
mvVars == <<local_ok, ok, acount, reduced, gcount>>

vars == <<env, fileVars, mvVars, pc, run, local_n, local_A, temp_B, temp_C,
          heap, even_partner, odd_partner, phase, chan, recvDone, nsent,
          nrecv, bcount, rcount>>

Ranks == 0 .. (p - 1)
Vals == 0 .. MaxVal

\* ------------------------------------------------------------ C arithmetic
\* C's / and % on ints truncate towards zero.
CDiv(a, b) == IF a >= 0 THEN a \div b ELSE -((-a) \div b)
CMod(a, b) == a - b * CDiv(a, b)

\* a[i] with C's 0-based index
At(a, i) == a[i + 1]
InBounds(a, i) == i >= 0 /\ i < Len(a)

\* ------------------------------------------------------------------ Compare
Compare(a, b) == IF a < b THEN -1 ELSE IF a = b THEN 0 ELSE 1

\* qsort(base, n, sizeof(int), Compare): the elements of base in an order in
\* which Compare never returns 1 for an earlier against a later element.
RECURSIVE InsertKey(_, _)
InsertKey(x, s) ==
  IF s = <<>> THEN <<x>>
  ELSE IF Compare(x, Head(s)) <= 0 THEN <<x>> \o s
  ELSE <<Head(s)>> \o InsertKey(x, Tail(s))

RECURSIVE SortKeys(_)
SortKeys(s) == IF s = <<>> THEN <<>> ELSE InsertKey(Head(s), SortKeys(Tail(s)))

\* Mutant: the local sort is left out.
qsort_Skipped(base) == base

qsort(base) == SortKeys(base)

\* ---------------------------------------------------------------- Merge_low
\* The while loop of Merge_low from (m_i, r_i, t_i); oob records an index
\* outside 0 .. local_n - 1 at a read or a write.
\* Mutant: the loop runs while t_i <= local_n.
RECURSIVE MergeLowLoop_OffByOne(_, _, _, _, _, _, _)
MergeLowLoop_OffByOne(my_keys, recv_keys, temp_keys, n, m_i, r_i, t_i) ==
  IF ~(t_i <= n) THEN [keys |-> temp_keys, oob |-> FALSE, writes |-> t_i]
  ELSE IF ~InBounds(my_keys, m_i) \/ ~InBounds(recv_keys, r_i)
          \/ ~InBounds(temp_keys, t_i)
    THEN [keys |-> temp_keys, oob |-> TRUE, writes |-> t_i]
  ELSE IF At(my_keys, m_i) <= At(recv_keys, r_i)
    THEN MergeLowLoop_OffByOne(my_keys, recv_keys,
                               [temp_keys EXCEPT ![t_i + 1] = At(my_keys, m_i)],
                               n, m_i + 1, r_i, t_i + 1)
    ELSE MergeLowLoop_OffByOne(my_keys, recv_keys,
                               [temp_keys EXCEPT ![t_i + 1] = At(recv_keys, r_i)],
                               n, m_i, r_i + 1, t_i + 1)

RECURSIVE MergeLowLoop(_, _, _, _, _, _, _)
MergeLowLoop(my_keys, recv_keys, temp_keys, n, m_i, r_i, t_i) ==
  IF ~(t_i < n) THEN [keys |-> temp_keys, oob |-> FALSE, writes |-> t_i]
  ELSE IF ~InBounds(my_keys, m_i) \/ ~InBounds(recv_keys, r_i)
          \/ ~InBounds(temp_keys, t_i)
    THEN [keys |-> temp_keys, oob |-> TRUE, writes |-> t_i]
  ELSE IF At(my_keys, m_i) <= At(recv_keys, r_i)
    THEN MergeLowLoop(my_keys, recv_keys,
                      [temp_keys EXCEPT ![t_i + 1] = At(my_keys, m_i)],
                      n, m_i + 1, r_i, t_i + 1)
    ELSE MergeLowLoop(my_keys, recv_keys,
                      [temp_keys EXCEPT ![t_i + 1] = At(recv_keys, r_i)],
                      n, m_i, r_i + 1, t_i + 1)

\* Mutant: the merged keys are not copied back into my_keys.
Merge_low_NoCopy(my_keys, recv_keys, temp_keys, n) ==
  LET r == MergeLowLoop(my_keys, recv_keys, temp_keys, n, 0, 0, 0)
  IN  [A |-> my_keys, C |-> r.keys, oob |-> r.oob, writes |-> r.writes]

\* Merge_low: [A |-> my_keys after the memcpy, C |-> temp_keys, oob]
Merge_low(my_keys, recv_keys, temp_keys, n) ==
  LET r == MergeLowLoop(my_keys, recv_keys, temp_keys, n, 0, 0, 0)
  IN  [A |-> IF r.oob THEN my_keys ELSE r.keys, C |-> r.keys,
       oob |-> r.oob, writes |-> r.writes]

\* --------------------------------------------------------------- Merge_high
RECURSIVE MergeHighLoop(_, _, _, _, _, _, _)
MergeHighLoop(A, B, C, n, ai, bi, ci) ==
  IF ~(ci >= 0) THEN [keys |-> C, oob |-> FALSE, writes |-> n - 1 - ci]
  ELSE IF ~InBounds(A, ai) \/ ~InBounds(B, bi) \/ ~InBounds(C, ci)
    THEN [keys |-> C, oob |-> TRUE, writes |-> n - 1 - ci]
  ELSE IF At(A, ai) >= At(B, bi)
    THEN MergeHighLoop(A, B, [C EXCEPT ![ci + 1] = At(A, ai)],
                       n, ai - 1, bi, ci - 1)
    ELSE MergeHighLoop(A, B, [C EXCEPT ![ci + 1] = At(B, bi)],
                       n, ai, bi - 1, ci - 1)

\* Mutant: the merge runs from the front, as Merge_low does.
Merge_high_FromFront(A, B, C, n) == Merge_low(A, B, C, n)

Merge_high(A, B, C, n) ==
  LET r == MergeHighLoop(A, B, C, n, n - 1, n - 1, n - 1)
  IN  [A |-> IF r.oob THEN A ELSE r.keys, C |-> r.keys,
       oob |-> r.oob, writes |-> r.writes]

\* ----------------------------------------------------------------- partners
\* Sort, "Find partners": negative rank => do nothing during phase
\* Mutant: the last rank is not made idle.
EvenPartner_NoBoundary(my_rank, np) ==
  IF CMod(my_rank, 2) # 0 THEN my_rank - 1 ELSE my_rank + 1

EvenPartner(my_rank, np) ==
  IF CMod(my_rank, 2) # 0 THEN my_rank - 1
  ELSE IF my_rank + 1 = np THEN MPI_PROC_NULL ELSE my_rank + 1

\* Mutant: the last rank is not made idle in an odd phase.
OddPartner_NoBoundary(my_rank, np) ==
  IF CMod(my_rank, 2) # 0 THEN my_rank + 1 ELSE my_rank - 1

\* Mutant: every rank looks to the right in an odd phase.
OddPartner_RightLooking(my_rank, np) ==
  IF my_rank + 1 = np THEN MPI_PROC_NULL ELSE my_rank + 1

OddPartner(my_rank, np) ==
  IF CMod(my_rank, 2) # 0
    THEN IF my_rank + 1 = np THEN MPI_PROC_NULL ELSE my_rank + 1
  ELSE my_rank - 1

\* Odd_even_iter: the partner the phase looks at
PhasePartner(w) ==
  IF CMod(phase[w], 2) = 0 THEN even_partner[w] ELSE odd_partner[w]

\* Odd_even_iter: the partner the rank looks at in phase k
PartnerIn(w, k) == IF CMod(k, 2) = 0 THEN even_partner[w] ELSE odd_partner[w]

\* Odd_even_iter: which merge the rank applies in the phase
\* Mutant: the role follows the rank's parity alone.
KeepsHigh_ParityOnly(my_rank, ph) == CMod(my_rank, 2) # 0

\* Mutant: the two roles are exchanged.
KeepsHigh_Inverted(my_rank, ph) ==
  IF CMod(ph, 2) = 0 THEN ~(CMod(my_rank, 2) # 0) ELSE CMod(my_rank, 2) # 0

KeepsHigh(my_rank, ph) ==
  IF CMod(ph, 2) = 0 THEN CMod(my_rank, 2) # 0 ELSE ~(CMod(my_rank, 2) # 0)

Fresh(n) == [i \in 1 .. n |-> Indeterminate]

\* -------------------------------------------------------------------- Init
InitProc ==
  /\ run = [w \in Ranks |-> 0]
  /\ local_n = [w \in Ranks |-> 0]
  /\ local_A = [w \in Ranks |-> <<>>]
  /\ temp_B = [w \in Ranks |-> <<>>]
  /\ temp_C = [w \in Ranks |-> <<>>]
  /\ heap = [w \in Ranks |-> [B |-> "unalloc", C |-> "unalloc"]]
  /\ even_partner = [w \in Ranks |-> 0]
  /\ odd_partner = [w \in Ranks |-> 0]
  /\ phase = [w \in Ranks |-> 0]
  /\ chan = [e \in Ranks \X Ranks |-> <<>>]
  /\ recvDone = [w \in Ranks |-> FALSE]
  /\ nsent = [w \in Ranks |-> 0]
  /\ nrecv = [w \in Ranks |-> 0]
  /\ bcount = [w \in Ranks |-> 0]
  /\ rcount = [w \in Ranks |-> 0]
  /\ global_A = <<>>
  /\ scat = [w \in Ranks |-> <<>>]
  /\ gath = [w \in Ranks |-> <<>>]
  /\ reports = 0
  /\ local_ok = [w \in Ranks |-> 1]
  /\ ok = [w \in Ranks |-> 1]
  /\ acount = [w \in Ranks |-> 0]
  /\ reduced = <<>>
  /\ gcount = [w \in Ranks |-> 0]

Init ==
  /\ p \in 1 .. MaxP
  /\ global_n \in 1 .. MaxGlobalN
  /\ eager \in BOOLEAN
  /\ seedList \in [Ranks -> [1 .. CDiv(global_n, p) -> Vals]]
  /\ fileExists = TRUE /\ fileData = <<>> /\ nullAlloc = <<>>
  /\ pc = [w \in Ranks |-> "gen"]
  /\ InitProc

\* -------------------------------------------------------------- main (sort)
\* main: MPI_Comm_size .. Generate_list, and MPI_Barrier is entered
GenerateList(w) ==
  /\ w \in Ranks
  /\ pc[w] = "gen"
  /\ local_n' = [local_n EXCEPT ![w] = CDiv(global_n, p)]
  /\ local_A' = [local_A EXCEPT ![w] = seedList[w]]
  /\ bcount' = [bcount EXCEPT ![w] = @ + 1]
  /\ pc' = [pc EXCEPT ![w] = "barrier"]
  /\ UNCHANGED <<env, mvVars, fileVars, run, temp_B, temp_C, heap,
                 even_partner, odd_partner, phase, chan, recvDone, nsent,
                 nrecv, rcount>>

\* MPI_Barrier returns once every process of the communicator has entered it
BarrierPassed(w) == \A v \in Ranks : bcount[v] >= bcount[w]

\* --------------------------------------------------------------------- Sort
\* Sort up to its phase loop: the two mallocs (okB, okC: whether malloc
\* returned storage), the partners, qsort
SortPrologue(w, okB, okC) ==
  /\ heap' = [heap EXCEPT ![w] = [B |-> IF okB THEN "ok" ELSE "null",
                                  C |-> IF okC THEN "ok" ELSE "null"]]
  /\ temp_B' = [temp_B EXCEPT ![w] = IF okB THEN Fresh(local_n[w]) ELSE <<>>]
  /\ temp_C' = [temp_C EXCEPT ![w] = IF okC THEN Fresh(local_n[w]) ELSE <<>>]
  /\ even_partner' = [even_partner EXCEPT ![w] = EvenPartner(w, p)]
  /\ odd_partner' = [odd_partner EXCEPT ![w] = OddPartner(w, p)]
  /\ local_A' = [local_A EXCEPT ![w] = qsort(local_A[w])]
  /\ phase' = [phase EXCEPT ![w] = 0]
  /\ nsent' = [nsent EXCEPT ![w] = 0]
  /\ nrecv' = [nrecv EXCEPT ![w] = 0]
  /\ pc' = [pc EXCEPT ![w] = "loop"]

\* main: MPI_Barrier returns, Sort is called
SortBegin(w) ==
  /\ w \in Ranks
  /\ pc[w] = "barrier"
  /\ BarrierPassed(w)
  /\ SortPrologue(w, TRUE, TRUE)
  /\ UNCHANGED <<env, mvVars, fileVars, run, local_n, chan, recvDone,
                 bcount, rcount>>

\* ------------------------------------------------------------ Odd_even_iter
\* The phase has a partner: MPI_Sendrecv is entered, local_A is handed to the
\* library for the partner (tag 0) and the receive into temp_B is posted.
\* sentIn notes the phase of the sender; no receiver reads it.
PostSendrecv(w) ==
  /\ w \in Ranks
  /\ pc[w] = "loop"
  /\ phase[w] < p
  /\ PhasePartner(w) >= 0
  /\ IF PhasePartner(w) \in Ranks
       THEN /\ chan' = [chan EXCEPT ![<<w, PhasePartner(w)>>] =
                          Append(@, [data |-> local_A[w],
                                     sentIn |-> phase[w]])]
            /\ nsent' = [nsent EXCEPT ![w] = @ + 1]
            /\ pc' = [pc EXCEPT ![w] = "xchg"]
       ELSE \* no such rank: MPI_ERRORS_ARE_FATAL ends the job
            /\ pc' = [v \in Ranks |-> "aborted"]
            /\ UNCHANGED <<chan, nsent>>
  /\ recvDone' = [recvDone EXCEPT ![w] = FALSE]
  /\ UNCHANGED <<env, mvVars, fileVars, run, local_n, local_A, temp_B,
                 temp_C, heap, even_partner, odd_partner, phase, nrecv,
                 bcount, rcount>>

\* Mutant: the test of the partner is missing; the merge is applied to
\* whatever temp_B holds.
IdlePhase_MergesAnyway(w) ==
  /\ w \in Ranks
  /\ pc[w] = "loop"
  /\ phase[w] < p
  /\ ~(PhasePartner(w) >= 0)
  /\ LET r == IF KeepsHigh(w, phase[w])
                THEN Merge_high(local_A[w], temp_B[w], temp_C[w], local_n[w])
                ELSE Merge_low(local_A[w], temp_B[w], temp_C[w], local_n[w])
     IN  /\ local_A' = [local_A EXCEPT ![w] = r.A]
         /\ temp_C' = [temp_C EXCEPT ![w] = r.C]
  /\ phase' = [phase EXCEPT ![w] = @ + 1]
  /\ UNCHANGED <<env, mvVars, fileVars, pc, run, local_n, temp_B, heap,
                 even_partner, odd_partner, chan, recvDone, nsent, nrecv,
                 bcount, rcount>>

\* The phase has no partner (the partner is negative): nothing is done and
\* the for loop of Sort goes on to the next phase.
IdlePhase(w) ==
  /\ w \in Ranks
  /\ pc[w] = "loop"
  /\ phase[w] < p
  /\ ~(PhasePartner(w) >= 0)
  /\ phase' = [phase EXCEPT ![w] = @ + 1]
  /\ UNCHANGED <<env, mvVars, fileVars, pc, run, local_n, local_A,
                 temp_B, temp_C, heap, even_partner, odd_partner, chan,
                 recvDone, nsent, nrecv, bcount, rcount>>

\* The receive half matches the oldest message from the partner (messages of
\* one source, tag and communicator do not overtake) and fills temp_B.
\* Storing through a null temp_B ends the process.
RecvComplete(w) ==
  /\ w \in Ranks
  /\ pc[w] = "xchg"
  /\ ~recvDone[w]
  /\ chan[<<PhasePartner(w), w>>] # <<>>
  /\ chan' = [chan EXCEPT ![<<PhasePartner(w), w>>] = Tail(@)]
  /\ nrecv' = [nrecv EXCEPT ![w] = @ + 1]
  /\ IF heap[w].B = "ok" \/ local_n[w] = 0
       THEN /\ temp_B' = [temp_B EXCEPT ![w] =
                            IF local_n[w] = 0 THEN @
                            ELSE Head(chan[<<PhasePartner(w), w>>]).data]
            /\ recvDone' = [recvDone EXCEPT ![w] = TRUE]
            /\ pc' = pc
       ELSE /\ pc' = [pc EXCEPT ![w] = "segv"]
            /\ UNCHANGED <<temp_B, recvDone>>
  /\ UNCHANGED <<env, mvVars, fileVars, run, local_n, local_A, temp_C,
                 heap, even_partner, odd_partner, phase, nsent, bcount,
                 rcount>>

\* Mutant: the send half is taken to be complete as soon as it is posted.
SendComplete_Immediate(w) == TRUE

\* The send half is complete: at once when the library buffers the message,
\* else when the partner's receive has taken it.
SendComplete(w) == eager \/ chan[<<w, PhasePartner(w)>>] = <<>>

\* Mutant: both partners keep the low half.
MergeSplit_AlwaysLow(w) ==
  Merge_low(local_A[w], temp_B[w], temp_C[w], local_n[w])

\* The merge Odd_even_iter applies once MPI_Sendrecv has returned
MergeSplit(w) ==
  IF KeepsHigh(w, phase[w])
    THEN Merge_high(local_A[w], temp_B[w], temp_C[w], local_n[w])
    ELSE Merge_low(local_A[w], temp_B[w], temp_C[w], local_n[w])

\* Mutant: the exchange does not block; the merge is applied without waiting
\* for the receive or the send to complete.
FinishSendrecv_NoWait(w) ==
  /\ w \in Ranks
  /\ pc[w] = "xchg"
  /\ IF (heap[w].C = "ok" \/ local_n[w] = 0) /\ ~MergeSplit(w).oob
       THEN /\ local_A' = [local_A EXCEPT ![w] = MergeSplit(w).A]
            /\ temp_C' = [temp_C EXCEPT ![w] = MergeSplit(w).C]
            /\ phase' = [phase EXCEPT ![w] = @ + 1]
            /\ pc' = [pc EXCEPT ![w] = "loop"]
       ELSE /\ pc' = [pc EXCEPT ![w] = "segv"]
            /\ UNCHANGED <<local_A, temp_C, phase>>
  /\ recvDone' = [recvDone EXCEPT ![w] = FALSE]
  /\ UNCHANGED <<env, mvVars, fileVars, run, local_n, temp_B, heap,
                 even_partner, odd_partner, chan, nsent, nrecv, bcount,
                 rcount>>

\* MPI_Sendrecv returns, the merge is applied and the loop advances.
\* Storing through a null temp_C, or outside an array, ends the process.
FinishSendrecv(w) ==
  /\ w \in Ranks
  /\ pc[w] = "xchg"
  /\ recvDone[w]
  /\ SendComplete(w)
  /\ IF (heap[w].C = "ok" \/ local_n[w] = 0) /\ ~MergeSplit(w).oob
       THEN /\ local_A' = [local_A EXCEPT ![w] = MergeSplit(w).A]
            /\ temp_C' = [temp_C EXCEPT ![w] = MergeSplit(w).C]
            /\ phase' = [phase EXCEPT ![w] = @ + 1]
            /\ pc' = [pc EXCEPT ![w] = "loop"]
       ELSE /\ pc' = [pc EXCEPT ![w] = "segv"]
            /\ UNCHANGED <<local_A, temp_C, phase>>
  /\ recvDone' = [recvDone EXCEPT ![w] = FALSE]
  /\ UNCHANGED <<env, mvVars, fileVars, run, local_n, temp_B, heap,
                 even_partner, odd_partner, chan, nsent, nrecv, bcount,
                 rcount>>

\* Mutant: the loop stops one phase early.
SortReturn_Early(w) ==
  /\ w \in Ranks
  /\ pc[w] = "loop"
  /\ ~(phase[w] < p - 1)
  /\ heap' = [heap EXCEPT ![w] = [B |-> "freed", C |-> "freed"]]
  /\ temp_B' = [temp_B EXCEPT ![w] = <<>>]
  /\ temp_C' = [temp_C EXCEPT ![w] = <<>>]
  /\ pc' = [pc EXCEPT ![w] = "sorted"]
  /\ UNCHANGED <<env, mvVars, fileVars, run, local_n, local_A,
                 even_partner, odd_partner, phase, chan, recvDone, nsent,
                 nrecv, bcount, rcount>>

\* The for loop of Sort ends, temp_B and temp_C are freed, Sort returns.
SortReturn(w) ==
  /\ w \in Ranks
  /\ pc[w] = "loop"
  /\ ~(phase[w] < p)
  /\ heap' = [heap EXCEPT ![w] = [B |-> "freed", C |-> "freed"]]
  /\ temp_B' = [temp_B EXCEPT ![w] = <<>>]
  /\ temp_C' = [temp_C EXCEPT ![w] = <<>>]
  /\ pc' = [pc EXCEPT ![w] = "sorted"]
  /\ UNCHANGED <<env, mvVars, fileVars, run, local_n, local_A,
                 even_partner, odd_partner, phase, chan, recvDone, nsent,
                 nrecv, bcount, rcount>>

\* main after Sort: MPI_Reduce (rank 0, the root, has to have every other
\* rank's contribution), free(local_A), then the next iteration or, after
\* the last one, MPI_Finalize and return 0.
MainReduce(w) ==
  /\ w \in Ranks
  /\ pc[w] = "sorted"
  /\ w = 0 => \A v \in Ranks \ {0} : rcount[v] > rcount[0]
  /\ rcount' = [rcount EXCEPT ![w] = @ + 1]
  /\ local_A' = [local_A EXCEPT ![w] = <<>>]
  /\ run' = [run EXCEPT ![w] = @ + 1]
  /\ pc' = [pc EXCEPT ![w] = IF run[w] + 1 < NumRuns THEN "gen" ELSE "done"]
  /\ UNCHANGED <<env, mvVars, fileVars, local_n, temp_B, temp_C, heap,
                 even_partner, odd_partner, phase, chan, recvDone, nsent,
                 nrecv, bcount>>

Next ==
  \E w \in 0 .. MaxP - 1 :
    \/ GenerateList(w)
    \/ SortBegin(w)
    \/ PostSendrecv(w)
    \/ IdlePhase(w)
    \/ RecvComplete(w)
    \/ FinishSendrecv(w)
    \/ SortReturn(w)
    \/ MainReduce(w)

Spec == Init /\ [][Next]_vars

\* No guard of any action reads a key: which steps are enabled depends on pc,
\* phase, the partners and the channels alone.  Termination is checked over
\* every p, global_n, send mode and interleaving with all keys 0, under weak
\* fairness of the scheduler (a process that can take a step is scheduled).
InitFair ==
  /\ Init
  /\ \A w \in Ranks : \A i \in DOMAIN seedList[w] : seedList[w][i] = 0

FairSpec == InitFair /\ [][Next]_vars /\ WF_vars(Next)

\* The same program on more processes, one key per process: the least p with
\* three exchanges of one pair (phases 0, 2 and 4) in a call of Sort.  As for
\* InitFair the keys are all 0.
WideP == 5

InitWide ==
  /\ p = WideP
  /\ global_n = p
  /\ eager \in BOOLEAN
  /\ seedList = [w \in Ranks |-> <<0>>]
  /\ fileExists = TRUE /\ fileData = <<>> /\ nullAlloc = <<>>
  /\ pc = [w \in Ranks |-> "gen"]
  /\ InitProc

NextWide ==
  \E w \in 0 .. WideP - 1 :
    \/ GenerateList(w)
    \/ SortBegin(w)
    \/ PostSendrecv(w)
    \/ IdlePhase(w)
    \/ RecvComplete(w)
    \/ FinishSendrecv(w)
    \/ SortReturn(w)
    \/ MainReduce(w)

SpecWide == InitWide /\ [][NextWide]_vars

\* ------------------------------------------------------------------ helpers
RECURSIVE ConcatRanks(_, _)
\* f[0] \o f[1] \o ... \o f[k - 1]
ConcatRanks(f, k) == IF k = 0 THEN <<>> ELSE ConcatRanks(f, k - 1) \o f[k - 1]

IsSorted(s) == \A i \in 1 .. Len(s) - 1 : s[i] <= s[i + 1]

RECURSIVE BagOf(_)
BagOf(s) == IF s = <<>> THEN EmptyBag ELSE BagOf(Tail(s)) (+) SetToBag({Head(s)})

\* ----------------------------------------------- main (sort of a file's list)
FileMaxP == 3
FileMaxN == 4

\* The block of local_n elements MPI_Scatter sends to rank v
Block(a, v, n) == SubSeq(a, v * n + 1, (v + 1) * n)

InitFile ==
  /\ p \in 1 .. FileMaxP
  /\ global_n \in 1 .. FileMaxN
  /\ eager \in BOOLEAN
  /\ seedList = [w \in Ranks |-> <<>>]
  /\ fileExists \in BOOLEAN
  /\ fileData \in IF fileExists THEN [1 .. global_n -> Vals] ELSE {<<>>}
  /\ nullAlloc \in {<<>>} \cup (Ranks \X {"B", "C"})
  /\ pc = [w \in Ranks |-> "f_start"]
  /\ InitProc

\* main up to MPI_Barrier, entered: rank 0 reads the file into global_A
\* (Read_vector_from_input_file with the file open), the others go straight on
FileMainBegin(w) ==
  /\ w \in Ranks
  /\ pc[w] = "f_start"
  /\ w = 0 => fileExists
  /\ local_n' = [local_n EXCEPT ![w] = CDiv(global_n, p)]
  /\ global_A' = IF w = 0 THEN fileData ELSE global_A
  /\ bcount' = [bcount EXCEPT ![w] = @ + 1]
  /\ pc' = [pc EXCEPT ![w] = "f_barrier"]
  /\ UNCHANGED <<env, mvVars, scat, gath, reports, run, local_A, temp_B, temp_C, heap,
                 even_partner, odd_partner, phase, chan, recvDone, nsent,
                 nrecv, rcount>>

\* Read_vector_from_input_file, fopen returns NULL: the message and exit(-1)
ReadFileMissing(w) ==
  /\ w \in Ranks
  /\ pc[w] = "f_start"
  /\ w = 0
  /\ ~fileExists
  /\ reports' = reports + 1
  /\ pc' = [pc EXCEPT ![w] = "exited"]
  /\ UNCHANGED <<env, mvVars, global_A, scat, gath, run, local_n, local_A, temp_B,
                 temp_C, heap, even_partner, odd_partner, phase, chan,
                 recvDone, nsent, nrecv, bcount, rcount>>

\* MPI_Barrier returns; MPI_Scatter: rank 0 sends every rank its block and
\* keeps its own, another rank returns with the block rank 0 sent it
FileScatter(w) ==
  /\ w \in Ranks
  /\ pc[w] = "f_barrier"
  /\ BarrierPassed(w)
  /\ w # 0 => scat[w] # <<>>
  /\ IF w = 0
       THEN /\ scat' = [v \in Ranks |->
                         IF v = 0 THEN scat[v]
                         ELSE Append(scat[v], Block(global_A, v, local_n[0]))]
            /\ local_A' = [local_A EXCEPT ![w] = Block(global_A, 0, local_n[0])]
       ELSE /\ scat' = [scat EXCEPT ![w] = Tail(@)]
            /\ local_A' = [local_A EXCEPT ![w] = Head(scat[w])]
  /\ pc' = [pc EXCEPT ![w] = "f_sort"]
  /\ UNCHANGED <<env, mvVars, global_A, gath, reports, run, local_n, temp_B, temp_C,
                 heap, even_partner, odd_partner, phase, chan, recvDone,
                 nsent, nrecv, bcount, rcount>>

\* Sort is called; the malloc named by nullAlloc returns NULL
FileSortBegin(w) ==
  /\ w \in Ranks
  /\ pc[w] = "f_sort"
  /\ SortPrologue(w, nullAlloc # <<w, "B">>, nullAlloc # <<w, "C">>)
  /\ UNCHANGED <<env, mvVars, fileVars, run, local_n, chan, recvDone, bcount, rcount>>

\* main after Sort: MPI_Gather (rank 0 puts the blocks of all ranks back into
\* global_A in rank order), MPI_Reduce, free(local_A), MPI_Finalize
FileGather(w) ==
  /\ w \in Ranks
  /\ pc[w] = "sorted"
  /\ w = 0 => \A v \in Ranks \ {0} : gath[v] # <<>>
  /\ IF w = 0
       THEN /\ global_A' =
                 ConcatRanks([v \in Ranks |->
                                IF v = 0 THEN local_A[0] ELSE Head(gath[v])], p)
                 \o SubSeq(global_A, p * local_n[0] + 1, Len(global_A))
            /\ gath' = [v \in Ranks |-> IF v = 0 THEN gath[v] ELSE Tail(gath[v])]
       ELSE /\ gath' = [gath EXCEPT ![w] = Append(@, local_A[w])]
            /\ UNCHANGED global_A
  /\ rcount' = [rcount EXCEPT ![w] = @ + 1]
  /\ local_A' = [local_A EXCEPT ![w] = <<>>]
  /\ pc' = [pc EXCEPT ![w] = "done"]
  /\ UNCHANGED <<env, mvVars, scat, reports, run, local_n, temp_B, temp_C, heap,
                 even_partner, odd_partner, phase, chan, recvDone, nsent,
                 nrecv, bcount>>

NextFile ==
  \E w \in 0 .. FileMaxP - 1 :
    \/ FileMainBegin(w)
    \/ ReadFileMissing(w)
    \/ FileScatter(w)
    \/ FileSortBegin(w)
    \/ PostSendrecv(w)
    \/ IdlePhase(w)
    \/ RecvComplete(w)
    \/ FinishSendrecv(w)
    \/ SortReturn(w)
    \/ FileGather(w)

SpecFile == InitFile /\ [][NextFile]_vars

\* ------------------------------------------- Merge_low / Merge_high, called
\* One process calls one of the two merges on arrays of local_n ints each:
\* its keys (kept in seedList as passed), the received keys, the scratch.
MergeMaxN == 3
MergeMaxVal == 3

InitMerge ==
  /\ p = 1
  /\ global_n \in 0 .. MergeMaxN
  /\ eager = FALSE
  /\ seedList \in [Ranks -> [1 .. global_n -> 0 .. MergeMaxVal]]
  /\ fileExists = TRUE /\ fileData = <<>> /\ nullAlloc = <<>>
  /\ pc = [w \in Ranks |-> "m_call"]
  /\ run = [w \in Ranks |-> 0]
  /\ local_n = [w \in Ranks |-> global_n]
  /\ local_A = seedList
  /\ temp_B \in [Ranks -> [1 .. global_n -> 0 .. MergeMaxVal]]
  /\ temp_C = [w \in Ranks |-> Fresh(global_n)]
  /\ heap = [w \in Ranks |-> [B |-> "ok", C |-> "ok"]]
  /\ even_partner = [w \in Ranks |-> EvenPartner(w, p)]
  /\ odd_partner = [w \in Ranks |-> OddPartner(w, p)]
  /\ phase = [w \in Ranks |-> 0]
  /\ chan = [e \in Ranks \X Ranks |-> <<>>]
  /\ recvDone = [w \in Ranks |-> TRUE]
  /\ nsent = [w \in Ranks |-> 0]
  /\ nrecv = [w \in Ranks |-> 0]
  /\ bcount = [w \in Ranks |-> 0]
  /\ rcount = [w \in Ranks |-> 0]
  /\ global_A = <<>>
  /\ scat = [w \in Ranks |-> <<>>]
  /\ gath = [w \in Ranks |-> <<>>]
  /\ reports = 0
  /\ local_ok = [w \in Ranks |-> 1]
  /\ ok = [w \in Ranks |-> 1]
  /\ acount = [w \in Ranks |-> 0]
  /\ reduced = <<>>
  /\ gcount = [w \in Ranks |-> 0]

\* Merge_low(local_A, temp_B, temp_C, local_n) is called and returns; an index
\* outside the arrays ends the process
MergeLowCall(w) ==
  /\ w \in Ranks
  /\ pc[w] = "m_call"
  /\ LET r == Merge_low(local_A[w], temp_B[w], temp_C[w], local_n[w])
     IN  /\ local_A' = [local_A EXCEPT ![w] = r.A]
         /\ temp_C' = [temp_C EXCEPT ![w] = r.C]
         /\ pc' = [pc EXCEPT ![w] = IF r.oob THEN "segv" ELSE "m_low"]
  /\ UNCHANGED <<env, mvVars, fileVars, run, local_n, temp_B, heap, even_partner,
                 odd_partner, phase, chan, recvDone, nsent, nrecv, bcount,
                 rcount>>

\* Merge_high(local_A, temp_B, temp_C, local_n) is called and returns
MergeHighCall(w) ==
  /\ w \in Ranks
  /\ pc[w] = "m_call"
  /\ LET r == Merge_high(local_A[w], temp_B[w], temp_C[w], local_n[w])
     IN  /\ local_A' = [local_A EXCEPT ![w] = r.A]
         /\ temp_C' = [temp_C EXCEPT ![w] = r.C]
         /\ pc' = [pc EXCEPT ![w] = IF r.oob THEN "segv" ELSE "m_high"]
  /\ UNCHANGED <<env, mvVars, fileVars, run, local_n, temp_B, heap, even_partner,
                 odd_partner, phase, chan, recvDone, nsent, nrecv, bcount,
                 rcount>>

NextMerge ==
  \E w \in {0} :
    \/ MergeLowCall(w)
    \/ MergeHighCall(w)

SpecMerge == InitMerge /\ [][NextMerge]_vars

\* ------------------------------------- main (matrix-vector multiplication)
\* mpi_mat_vect_time.c: the allocations and the collectives of every
\* iteration of main; the values of the matrix and the vectors are left out.
MvMaxP == 3
\* m = n = 20000
MvN == 20000

Min2(a, b) == IF a < b THEN a ELSE b

InitMv ==
  /\ p \in 1 .. MvMaxP
  /\ global_n = MvN
  /\ eager = FALSE
  /\ seedList = [w \in Ranks |-> <<>>]
  /\ fileExists = TRUE /\ fileData = <<>> /\ nullAlloc = <<>>
  /\ pc = [w \in Ranks |-> "mv_alloc"]
  /\ InitProc

\* Check_for_error up to the point where MPI_Allreduce has been entered with
\* local_ok = v: the call is the process's next one, and its MPI_MIN takes v in
EnterAllreduce(w, v) ==
  /\ local_ok' = [local_ok EXCEPT ![w] = v]
  /\ acount' = [acount EXCEPT ![w] = @ + 1]
  /\ reduced' = IF acount[w] + 1 \in DOMAIN reduced
                  THEN [reduced EXCEPT ![acount[w] + 1] = Min2(@, v)]
                  ELSE Append(reduced, v)

\* MPI_Allreduce returns once every process of the communicator has entered it
AllreduceDone(w) == \A v \in Ranks : acount[v] >= acount[w]

\* Mutant: the test is made on local_ok, not on the result of MPI_Allreduce.
CheckOk_Local(w) == local_ok[w]

\* Check_for_error: ok, the result of MPI_Allreduce with MPI_MIN
CheckOk(w) == reduced[acount[w]]

\* main, an iteration up to Allocate_arrays' call of Check_for_error: each of
\* the three mallocs gives storage or NULL; the test reads *local_A_pp and
\* the addresses local_x_pp and local_y_pp, which are never NULL
MvAllocateArrays(w) ==
  /\ w \in Ranks
  /\ pc[w] = "mv_alloc"
  /\ local_n' = [local_n EXCEPT ![w] = CDiv(global_n, p)]
  /\ \E okA, okx, oky \in BOOLEAN :
       /\ heap' = [heap EXCEPT ![w] = [A |-> IF okA THEN "ok" ELSE "null",
                                       x |-> IF okx THEN "ok" ELSE "null",
                                       y |-> IF oky THEN "ok" ELSE "null",
                                       t |-> "unalloc"]]
       /\ EnterAllreduce(w, IF ~okA THEN 0 ELSE 1)
  /\ pc' = [pc EXCEPT ![w] = "mv_check1"]
  /\ UNCHANGED <<env, fileVars, ok, gcount, run, local_A, temp_B, temp_C,
                 even_partner, odd_partner, phase, chan, recvDone, nsent,
                 nrecv, bcount, rcount>>

\* Check_for_error in Allocate_arrays from the return of MPI_Allreduce: on
\* ok == 0 rank 0 prints, MPI_Finalize and exit(-1); else Generate_matrix,
\* Generate_vector (a store through a null local_x ends the process) and
\* MPI_Barrier is entered
MvAllocChecked(w) ==
  /\ w \in Ranks
  /\ pc[w] = "mv_check1"
  /\ AllreduceDone(w)
  /\ ok' = [ok EXCEPT ![w] = CheckOk(w)]
  /\ IF CheckOk(w) = 0
       THEN /\ reports' = IF w = 0 THEN reports + 1 ELSE reports
            /\ pc' = [pc EXCEPT ![w] = "exited"]
            /\ UNCHANGED bcount
       ELSE IF (heap[w].A = "null" \/ heap[w].x = "null") /\ local_n[w] > 0
         THEN /\ pc' = [pc EXCEPT ![w] = "segv"]
              /\ UNCHANGED <<reports, bcount>>
         ELSE /\ bcount' = [bcount EXCEPT ![w] = @ + 1]
              /\ pc' = [pc EXCEPT ![w] = "mv_barrier"]
              /\ UNCHANGED reports
  /\ UNCHANGED <<env, global_A, scat, gath, local_ok, acount, reduced, gcount,
                 run, local_n, local_A, temp_B, temp_C, heap, even_partner,
                 odd_partner, phase, chan, recvDone, nsent, nrecv, rcount>>

\* MPI_Barrier returns; Mat_vect_mult up to its call of Check_for_error: the
\* malloc of x gives storage or NULL
MvMultBegin(w) ==
  /\ w \in Ranks
  /\ pc[w] = "mv_barrier"
  /\ BarrierPassed(w)
  /\ \E okT \in BOOLEAN :
       /\ heap' = [heap EXCEPT ![w].t = IF okT THEN "ok" ELSE "null"]
       /\ EnterAllreduce(w, IF ~okT THEN 0 ELSE 1)
  /\ pc' = [pc EXCEPT ![w] = "mv_check2"]
  /\ UNCHANGED <<env, fileVars, ok, gcount, run, local_n, local_A, temp_B,
                 temp_C, even_partner, odd_partner, phase, chan, recvDone,
                 nsent, nrecv, bcount, rcount>>

\* Check_for_error in Mat_vect_mult from the return of MPI_Allreduce: on
\* ok == 0 rank 0 prints, MPI_Finalize and exit(-1); else MPI_Allgather is
\* entered
MvMultChecked(w) ==
  /\ w \in Ranks
  /\ pc[w] = "mv_check2"
  /\ AllreduceDone(w)
  /\ ok' = [ok EXCEPT ![w] = CheckOk(w)]
  /\ IF CheckOk(w) = 0
       THEN /\ reports' = IF w = 0 THEN reports + 1 ELSE reports
            /\ pc' = [pc EXCEPT ![w] = "exited"]
            /\ UNCHANGED gcount
       ELSE /\ gcount' = [gcount EXCEPT ![w] = @ + 1]
            /\ pc' = [pc EXCEPT ![w] = IF heap[w].t = "null" /\ local_n[w] > 0
                                         THEN "segv" ELSE "mv_gather"]
            /\ UNCHANGED reports
  /\ UNCHANGED <<env, global_A, scat, gath, local_ok, acount, reduced, run,
                 local_n, local_A, temp_B, temp_C, heap, even_partner,
                 odd_partner, phase, chan, recvDone, nsent, nrecv, bcount,
                 rcount>>

\* MPI_Allgather returns once every process has entered it; the products are
\* stored into local_y (a store through a null local_y ends the process),
\* free(x), and MPI_Reduce is entered
MvMultFinish(w) ==
  /\ w \in Ranks
  /\ pc[w] = "mv_gather"
  /\ \A v \in Ranks : gcount[v] >= gcount[w]
  /\ IF heap[w].y = "null" /\ local_n[w] > 0
       THEN /\ pc' = [pc EXCEPT ![w] = "segv"]
            /\ UNCHANGED heap
       ELSE /\ heap' = [heap EXCEPT ![w].t = "freed"]
            /\ pc' = [pc EXCEPT ![w] = "mv_reduce"]
  /\ UNCHANGED <<env, fileVars, mvVars, run, local_n, local_A, temp_B, temp_C,
                 even_partner, odd_partner, phase, chan, recvDone, nsent,
                 nrecv, bcount, rcount>>

\* MPI_Reduce (rank 0, the root, has to have every other rank's
\* contribution), the three frees, then the next iteration or, after the
\* last one, MPI_Finalize and return 0
MvReduce(w) ==
  /\ w \in Ranks
  /\ pc[w] = "mv_reduce"
  /\ w = 0 => \A v \in Ranks \ {0} : rcount[v] > rcount[0]
  /\ rcount' = [rcount EXCEPT ![w] = @ + 1]
  /\ heap' = [heap EXCEPT ![w] = [A |-> "freed", x |-> "freed",
                                  y |-> "freed", t |-> "freed"]]
  /\ run' = [run EXCEPT ![w] = @ + 1]
  /\ pc' = [pc EXCEPT ![w] = IF run[w] + 1 < NumRuns THEN "mv_alloc" ELSE "done"]
  /\ UNCHANGED <<env, fileVars, mvVars, local_n, local_A, temp_B, temp_C,
                 even_partner, odd_partner, phase, chan, recvDone, nsent,
                 nrecv, bcount>>

NextMv ==
  \E w \in 0 .. MvMaxP - 1 :
    \/ MvAllocateArrays(w)
    \/ MvAllocChecked(w)
    \/ MvMultBegin(w)
    \/ MvMultChecked(w)
    \/ MvMultFinish(w)
    \/ MvReduce(w)

SpecMv == InitMv /\ [][NextMv]_vars

\* Sort has returned on every process and no process has gone on yet
AllSorted == \A w \in Ranks : pc[w] = "sorted"
InSort(w) == pc[w] \in {"loop", "xchg"}
Divisible == CMod(global_n, p) = 0

\* ------------------------------------------------------------------- claims
\* C1: when global_n is divisible by p and Sort has returned on all
\* processes, the local lists concatenated in rank order are non-decreasing.
C1_Sortedness ==
  (Divisible /\ AllSorted) => IsSorted(ConcatRanks(local_A, p))

C1_Witness ==
  /\ Divisible /\ AllSorted /\ p >= 3 /\ local_n[0] >= 2
  /\ ~IsSorted(ConcatRanks(seedList, p))
  /\ \E i \in 1 .. local_n[0] : seedList[0][i] = 1 /\ seedList[p - 1][i] = 0

\* C2: when Sort has returned on all processes, the values of all local
\* lists together are, as a multiset, the values the lists held before Sort.
C2_Permutation ==
  AllSorted => BagOf(ConcatRanks(local_A, p)) = BagOf(ConcatRanks(seedList, p))

C2_Witness ==
  /\ AllSorted /\ p >= 2 /\ local_n[0] >= 2
  /\ \E w \in Ranks : local_A[w] # seedList[w] /\ local_A[w] # qsort(seedList[w])
  /\ \E v, w \in Ranks : v # w /\ seedList[v][1] = seedList[w][1]

\* C3: under fair scheduling every process that is in the phase loop of Sort
\* returns from Sort, and whenever the program cannot take a step every
\* process has ended (no process is left blocked in an exchange).
C3_Termination ==
  /\ \A w \in 0 .. MaxP - 1 :
       (IF w \in Ranks THEN InSort(w) ELSE FALSE)
         ~> (IF w \in Ranks THEN pc[w] = "sorted" ELSE FALSE)
  /\ []((\A w \in Ranks : pc[w] = "done") \/ ENABLED Next)

\* Both partners have entered MPI_Sendrecv and neither has received yet,
\* with sends that complete only when they are received.
C3_Witness ==
  /\ ~eager /\ p >= 3
  /\ \E v, w \in Ranks :
       /\ v # w /\ pc[v] = "xchg" /\ pc[w] = "xchg"
       /\ PhasePartner(v) = w /\ PhasePartner(w) = v
       /\ ~recvDone[v] /\ ~recvDone[w]
       /\ phase[v] = 1

\* C4 as stated: with 4 processes rank 0 has partner 1 in even phases and
\* none in odd phases, rank 3 has none in even phases and partner 2 in odd
\* phases.
C4_AsStated ==
  p = 4 =>
    /\ InSort(0) => (even_partner[0] = 1 /\ odd_partner[0] < 0)
    /\ InSort(3) => (even_partner[3] < 0 /\ odd_partner[3] = 2)

\* C4, amended: with 4 processes rank 0 has partner 1 in even phases and none
\* in odd phases, rank 3 has partner 2 in even phases and none in odd phases;
\* neither rank enters an exchange in an odd phase.
C4_BoundaryIdle ==
  p = 4 =>
    /\ InSort(0) => (even_partner[0] = 1 /\ odd_partner[0] < 0)
    /\ InSort(3) => (even_partner[3] = 2 /\ odd_partner[3] < 0)
    /\ pc[0] = "xchg" => (CMod(phase[0], 2) = 0 /\ PhasePartner(0) = 1)
    /\ pc[3] = "xchg" => (CMod(phase[3], 2) = 0 /\ PhasePartner(3) = 2)

\* Ranks 0 and 3 have exchanged in phase 0 and been idle in phase 1.
C4_Witness ==
  /\ p = 4
  /\ pc[0] = "loop" /\ phase[0] = 2 /\ nsent[0] = 1
  /\ pc[3] = "loop" /\ phase[3] = 2 /\ nsent[3] = 1

\* C5: when the lists handed to Sort are already the final slices (each
\* sorted, rank r's values <= rank r+1's), Sort returns with every list
\* unchanged.
C5_Idempotent ==
  IsSorted(ConcatRanks(seedList, p)) =>
    \A w \in Ranks : (InSort(w) \/ pc[w] = "sorted") => local_A[w] = seedList[w]

C5_Witness ==
  /\ IsSorted(ConcatRanks(seedList, p)) /\ AllSorted /\ p >= 3
  /\ local_n[0] >= 2 /\ seedList[0][1] = 0 /\ seedList[p - 1][2] = 1
  /\ \A w \in Ranks : local_A[w] = seedList[w]

\* C6: with one process Sort sends and receives nothing, never enters an
\* exchange, and returns with its list sorted.
C6_SingleWorker ==
  p = 1 =>
    /\ nsent[0] = 0 /\ nrecv[0] = 0
    /\ chan[<<0, 0>>] = <<>>
    /\ pc[0] \notin {"xchg", "aborted", "segv"}
    /\ pc[0] = "sorted" => IsSorted(local_A[0])

C6_Witness ==
  /\ p = 1 /\ pc[0] = "sorted" /\ local_n[0] >= 3
  /\ ~IsSorted(seedList[0]) /\ phase[0] = 1

\* C7: a process goes through the phases 0, 1, ..., p - 1 one at a time, in
\* a phase without a partner too, and returns from Sort only from phase p.
C7_AllPhases ==
  [][\A w \in Ranks :
       /\ (InSort(w) /\ InSort(w)') =>
            (phase'[w] = phase[w] \/ phase'[w] = phase[w] + 1)
       /\ (pc[w] = "xchg" /\ pc'[w] = "loop") => phase'[w] = phase[w] + 1
       /\ (~InSort(w) /\ InSort(w)') => phase'[w] = 0
       /\ (InSort(w) /\ ~InSort(w)') => (pc'[w] = "sorted" /\ phase[w] = p)
       /\ InSort(w)' => phase'[w] <= p]_vars

\* All processes are through a Sort of lists that were sorted from the
\* start, in which rank 0 was idle in phase 1.
C7_Witness ==
  /\ AllSorted /\ p >= 3 /\ local_n[0] >= 1
  /\ IsSorted(ConcatRanks(seedList, p))
  /\ \A w \in Ranks : phase[w] = p
  /\ nsent[0] < p /\ local_A[0] = seedList[0]

\* C8: when global_n is not divisible by p the program stops before any
\* process sends or receives a message, and no process gets through Sort.
C8_ConfigRejected ==
  ~Divisible =>
    \A w \in Ranks : nsent[w] = 0 /\ nrecv[w] = 0 /\ pc[w] # "sorted"

\* C9: when rank 0 cannot open the input file, the failure is reported once
\* and, when no process can take a step any more, every process has ended.
C9_GroupTerminates ==
  (~fileExists /\ ~ENABLED NextFile) =>
    /\ reports = 1
    /\ \A w \in Ranks : pc[w] \in {"exited", "done", "aborted"}

\* C10: a process whose malloc of temp_B or temp_C returned NULL does not go
\* on into the phases: it enters no exchange and no merge.
C10_AllocChecked ==
  \A w \in Ranks :
    (heap[w].B = "null" \/ heap[w].C = "null") =>
      (pc[w] # "xchg" /\ nsent[w] = 0 /\ nrecv[w] = 0)

\* The partner Sort computes for rank b of np processes, in phase k
PartnerOf(b, np, k) ==
  IF CMod(k, 2) = 0 THEN EvenPartner(b, np) ELSE OddPartner(b, np)

\* C11: for a process in Sort and every phase k in 0 .. p - 1, a partner b
\* that is not negative is the rank below or above, is a rank of the
\* communicator, and the partner of b in phase k is the process again; every
\* message in flight was sent in a phase in which its destination's partner
\* is the sender.
C11_PartnerSymmetry ==
  /\ \A a \in Ranks : InSort(a) =>
       \A k \in 0 .. p - 1 :
         LET b == PartnerIn(a, k) IN
           b >= 0 =>
             /\ b \in {a - 1, a + 1}
             /\ b \in Ranks
             /\ PartnerOf(b, p, k) = a
             /\ InSort(b) => PartnerIn(b, k) = a
  /\ \A a, b \in Ranks : \A i \in 1 .. Len(chan[<<a, b>>]) :
       /\ chan[<<a, b>>][i].sentIn \in 0 .. p - 1
       /\ PartnerOf(b, p, chan[<<a, b>>][i].sentIn) = a

\* Ranks 1 and 2 of 4 have both posted their exchange of phase 1.
C11_Witness ==
  /\ p = 4
  /\ pc[1] = "xchg" /\ pc[2] = "xchg" /\ phase[1] = 1 /\ phase[2] = 1
  /\ Len(chan[<<1, 2>>]) = 1 /\ Len(chan[<<2, 1>>]) = 1

\* The phases in which the claim has rank w of np processes idle: rank 0 in
\* an odd phase, the last rank when its pairing falls outside 0 .. np - 1
IdleAsClaimed(w, np, k) ==
  \/ w = 0 /\ CMod(k, 2) = 1
  \/ /\ w = np - 1
     /\ \/ CMod(w, 2) = 0 /\ CMod(k, 2) = 0
        \/ CMod(w, 2) = 1 /\ CMod(k, 2) = 1

\* C12: in phase k the pairs are exactly (lo, lo + 1) for the lo < p - 1 of
\* k's parity; a process has no partner in phase k exactly when it is rank 0
\* in an odd phase or the last rank with its pairing outside 0 .. p - 1; a
\* process is inside an exchange only in a phase that pairs it, and Sort
\* returns having sent and received once per phase that pairs it (with 2
\* processes: one exchange, phase 1 is idle for both).
C12_BrickWall ==
  \A w \in Ranks :
    /\ InSort(w) =>
         \A k \in 0 .. p - 1 :
           /\ PartnerIn(w, k) < 0 <=> IdleAsClaimed(w, p, k)
           /\ PartnerIn(w, k) >= 0 =>
                LET lo == IF PartnerIn(w, k) < w THEN PartnerIn(w, k) ELSE w
                    hi == IF PartnerIn(w, k) < w THEN w ELSE PartnerIn(w, k)
                IN  hi = lo + 1 /\ CMod(lo, 2) = CMod(k, 2) /\ hi <= p - 1
           /\ (w < p - 1 /\ CMod(w, 2) = CMod(k, 2)) => PartnerIn(w, k) = w + 1
           /\ (w > 0 /\ CMod(w - 1, 2) = CMod(k, 2)) => PartnerIn(w, k) = w - 1
    /\ pc[w] = "xchg" => ~IdleAsClaimed(w, p, phase[w])
    /\ pc[w] = "sorted" =>
         /\ nsent[w] = Cardinality({k \in 0 .. p - 1 : ~IdleAsClaimed(w, p, k)})
         /\ nrecv[w] = nsent[w]
         /\ p = 2 => nsent[w] = 1

\* Two processes are through Sort: one exchange each, phase 1 was idle.
C12_Witness ==
  /\ p = 2 /\ AllSorted /\ local_n[0] >= 2
  /\ nsent[0] = 1 /\ nsent[1] = 1 /\ nrecv[0] = 1 /\ nrecv[1] = 1
  /\ phase[0] = 2 /\ phase[1] = 2

\* C13: the process that leaves an exchange has applied Merge_low when it is
\* the lower rank of the pair and Merge_high when it is the higher rank; two
\* partners inside the exchange of one phase have different roles.
C13_RoleAssignment ==
  [][\A w \in Ranks :
       /\ (pc[w] = "xchg" /\ pc'[w] = "loop") =>
            /\ w < PhasePartner(w) =>
                 local_A'[w] = Merge_low(local_A[w], temp_B[w], temp_C[w],
                                         local_n[w]).A
            /\ w > PhasePartner(w) =>
                 local_A'[w] = Merge_high(local_A[w], temp_B[w], temp_C[w],
                                          local_n[w]).A
            /\ KeepsHigh(w, phase[w]) <=> w > PhasePartner(w)
       /\ \A v \in Ranks :
            (pc[v] = "xchg" /\ pc[w] = "xchg" /\ PhasePartner(w) = v
               /\ phase[v] = phase[w])
              => KeepsHigh(v, phase[v]) # KeepsHigh(w, phase[w])]_vars

\* Rank 2 of 4 has kept the high half in phase 1 and rank 1 the low half, and
\* the two halves differ from what either held before.
C13_Witness ==
  /\ p = 4 /\ local_n[1] >= 1
  /\ pc[1] = "loop" /\ pc[2] = "loop" /\ phase[1] = 2 /\ phase[2] = 2
  /\ local_A[1] # temp_B[2] /\ local_A[2] # temp_B[1]
  /\ local_A[1] # local_A[2]

\* The full sorted merge of the 2n keys
FullMerge(own, other) == SortKeys(own \o other)

\* C14: called on two ascending arrays of n keys, Merge_low leaves in local_A
\* the first n keys of the sorted merge of the 2n keys and Merge_high the
\* last n, each ascending; neither ends the process.
C14_MergeSplit ==
  (IsSorted(seedList[0]) /\ IsSorted(temp_B[0])) =>
    /\ pc[0] # "segv"
    /\ pc[0] = "m_low" =>
         /\ local_A[0] = SubSeq(FullMerge(seedList[0], temp_B[0]), 1, local_n[0])
         /\ IsSorted(local_A[0])
    /\ pc[0] = "m_high" =>
         /\ local_A[0] = SubSeq(FullMerge(seedList[0], temp_B[0]),
                                local_n[0] + 1, 2 * local_n[0])
         /\ IsSorted(local_A[0])

\* Merge_high has run on 3 keys against 3 keys that interleave with them,
\* with one key on both sides, and has kept keys of both.
C14_Witness ==
  /\ pc[0] = "m_high" /\ local_n[0] = 3
  /\ IsSorted(seedList[0]) /\ IsSorted(temp_B[0])
  /\ seedList[0][1] < temp_B[0][1] /\ temp_B[0][3] < seedList[0][3]
  /\ seedList[0][2] = temp_B[0][2]
  /\ local_A[0] # seedList[0] /\ local_A[0] # temp_B[0]

\* Every key of lo is <= every key of hi
AllLeq(lo, hi) ==
  \A i \in 1 .. Len(lo) : \A j \in 1 .. Len(hi) : lo[i] <= hi[j]

\* The two partitions a pair holds after a phase (lo of the lower rank)
\* against the two it held before
PairOutcome(loAfter, hiAfter, before1, before2) ==
  /\ BagOf(loAfter) (+) BagOf(hiAfter) = BagOf(before1) (+) BagOf(before2)
  /\ AllLeq(loAfter, hiAfter)

\* C15: (a) two partners inside the exchange of one phase that have both
\* received hold each other's partition in temp_B, and the partitions their
\* merges yield are, as a multiset, the two partitions they hold, with every
\* key of the lower rank's <= every key of the higher rank's; (b) on the
\* step by which a process completes the merge of phase k while its partner
\* holds the partition it got from phase k, the two partitions are, as a
\* multiset, the process's partition and the one it received, ordered the
\* same way.
C15_PairwiseOutcome ==
  [][\A w \in Ranks :
       LET v == PhasePartner(w) IN
         /\ (pc[w] = "xchg" /\ recvDone[w] /\ w < v /\ pc[v] = "xchg"
               /\ recvDone[v] /\ phase[v] = phase[w]) =>
              /\ temp_B[w] = local_A[v] /\ temp_B[v] = local_A[w]
              /\ PairOutcome(MergeSplit(w).A, MergeSplit(v).A,
                             local_A[w], local_A[v])
         /\ (pc[w] = "xchg" /\ pc'[w] = "loop"
               /\ phase[v] = phase[w] + 1 /\ pc[v] \in {"loop", "xchg", "sorted"}) =>
              IF w < v
                THEN PairOutcome(local_A'[w], local_A'[v], local_A[w], temp_B[w])
                ELSE PairOutcome(local_A'[v], local_A'[w], local_A[w], temp_B[w])]_vars

\* Rank 1 has just completed phase 1 after rank 2 did; both partitions
\* changed in that phase and hold a key in common.
C15_Witness ==
  /\ p >= 3 /\ local_n[1] >= 2
  /\ pc[1] = "loop" /\ pc[2] = "loop" /\ phase[1] = 2 /\ phase[2] = 2
  /\ local_A[1] # temp_B[2] /\ local_A[2] # temp_B[1]
  /\ \E i, j \in 1 .. local_n[1] : local_A[1][i] = local_A[2][j]
  /\ \E i, j \in 1 .. local_n[1] : local_A[1][i] < local_A[2][j]

\* C16: from the local sort on, at every phase, inside every exchange and
\* when Sort has returned, the list of a process is ascending and holds
\* local_n keys.
C16_LocalSorted ==
  \A w \in Ranks :
    (InSort(w) \/ pc[w] = "sorted") =>
      /\ IsSorted(local_A[w])
      /\ Len(local_A[w]) = local_n[w]
      /\ local_n[w] = CDiv(global_n, p)

\* Rank 1 stands at phase 2 with a list that was generated unsorted and has
\* changed in the merges since the local sort.
C16_Witness ==
  /\ p >= 3 /\ local_n[1] >= 2
  /\ pc[1] = "loop" /\ phase[1] = 2 /\ nrecv[1] = 2
  /\ ~IsSorted(seedList[1])
  /\ local_A[1] # qsort(seedList[1])

\* C17 as stated (for a list length that p divides): a process that has sent
\* its partition for a phase k >= 1 finds every process that is in Sort at
\* the end of phase k - 1 or beyond.
C17_GlobalLockstep ==
  Divisible =>
    \A w, v \in Ranks :
      (pc[w] = "xchg" /\ phase[w] >= 1 /\ InSort(v)) => phase[v] >= phase[w]

\* Process b is in the exchange of phase k of the same call of Sort as w,
\* or beyond it
HasEntered(b, w, k) ==
  \/ run[b] > run[w]
  \/ /\ run[b] = run[w]
     /\ pc[b] \in {"loop", "xchg", "sorted"}
     /\ phase[b] > k \/ (phase[b] = k /\ pc[b] = "xchg")

\* C17, amended: a process is past phase k (and so sends for a later phase)
\* only when its partner of phase k has entered the exchange of phase k or
\* is beyond it; with sends that are not buffered the partner has also
\* received the process's partition of phase k.
C17_PairwiseLockstep ==
  \A w \in Ranks :
    (InSort(w) \/ pc[w] = "sorted") =>
      \A k \in 0 .. phase[w] - 1 :
        LET b == PartnerIn(w, k) IN
          b >= 0 =>
            /\ HasEntered(b, w, k)
            /\ (~eager /\ run[b] = run[w] /\ phase[b] = k) => recvDone[b]

\* Rank 1 of 4 has sent for phase 2 while rank 2, its partner of phase 1, is
\* still inside the exchange of phase 1 and rank 3 has not left phase 0.
C17_Witness ==
  /\ p = 4
  /\ pc[1] = "xchg" /\ phase[1] = 2
  /\ pc[2] = "xchg" /\ phase[2] = 1
  /\ phase[3] = 0 /\ pc[3] = "xchg"

\* C18: (a) the message a receive matches was sent by the partner in the
\* phase the receiver is in, it is what temp_B then holds, and it is the
\* partner's list as long as the partner is inside that exchange; (b) a
\* process that applies the merge of phase k while its partner is inside the
\* exchange of phase k merges with the partner's list.
C18_SamePhaseMessage ==
  [][\A w \in Ranks :
       LET v == PhasePartner(w) IN
         /\ (pc[w] = "xchg" /\ ~recvDone[w] /\ recvDone'[w]) =>
              LET m == Head(chan[<<v, w>>]) IN
                /\ m.sentIn = phase[w]
                /\ temp_B'[w] = m.data
                /\ (pc[v] = "xchg" /\ phase[v] = phase[w]) => m.data = local_A[v]
         /\ (pc[w] = "xchg" /\ pc'[w] = "loop" /\ pc[v] = "xchg"
               /\ phase[v] = phase[w]) =>
              temp_B[w] = local_A[v]]_vars

\* With buffered sends rank 0 has already sent for phase 2, and rank 1 has
\* just received rank 0's partition of phase 0, which differs from the one
\* still in flight.
C18_Witness ==
  /\ eager /\ p >= 3 /\ local_n[0] >= 1
  /\ pc[1] = "xchg" /\ phase[1] = 0 /\ recvDone[1]
  /\ pc[0] = "xchg" /\ phase[0] = 2
  /\ Len(chan[<<0, 1>>]) = 1 /\ chan[<<0, 1>>][1].sentIn = 2
  /\ chan[<<0, 1>>][1].data # temp_B[1]

\* C19: while a process stands in a phase without a partner, no step changes
\* its list, temp_B, temp_C or its counts of messages sent and received, puts
\* a message of its into a channel or takes one addressed to it, or moves it
\* into an exchange; the one step it takes advances its phase by one.
C19_IdleFrame ==
  [][\A w \in Ranks :
       (pc[w] = "loop" /\ phase[w] < p /\ PhasePartner(w) < 0) =>
         /\ local_A'[w] = local_A[w]
         /\ temp_B'[w] = temp_B[w]
         /\ temp_C'[w] = temp_C[w]
         /\ nsent'[w] = nsent[w] /\ nrecv'[w] = nrecv[w]
         /\ recvDone'[w] = recvDone[w]
         /\ pc'[w] = "loop"
         /\ phase'[w] = phase[w] \/ phase'[w] = phase[w] + 1
         /\ \A v \in Ranks :
              /\ Len(chan'[<<w, v>>]) <= Len(chan[<<w, v>>])
              /\ Len(chan'[<<v, w>>]) >= Len(chan[<<v, w>>])]_vars

\* Rank 0 is through its idle phase 1 with a list and buffers that the
\* exchange of phase 0 has filled, and rank 1's message of phase 2 is waiting.
C19_Witness ==
  /\ p >= 3 /\ local_n[0] >= 2
  /\ pc[0] = "loop" /\ phase[0] = 2
  /\ nsent[0] = 1 /\ nrecv[0] = 1
  /\ temp_B[0] # Fresh(local_n[0]) /\ temp_C[0] = local_A[0]
  /\ local_A[0] # qsort(seedList[0])
  /\ Len(chan[<<1, 0>>]) = 1

\* C20 as stated: no channel holds more than one message that has not been
\* received.
C20_AtMostOne ==
  \A a, b \in Ranks : Len(chan[<<a, b>>]) <= 1

\* C20, amended: a channel holds at most two messages that have not been
\* received, at most one with sends that are not buffered; two of them were
\* sent two phases apart and the older is the first to be received; the
\* message a waiting receiver will match is the one its partner sent in the
\* receiver's own phase.
C20_ChannelBound ==
  \A a, b \in Ranks :
    LET q == chan[<<a, b>>] IN
      /\ Len(q) <= 2
      /\ ~eager => Len(q) <= 1
      /\ Len(q) = 2 => q[2].sentIn = q[1].sentIn + 2
      /\ (Len(q) >= 1 /\ pc[b] = "xchg" /\ ~recvDone[b] /\ PhasePartner(b) = a)
           => q[1].sentIn = phase[b]
      /\ (Len(q) >= 1 /\ InSort(b)) => q[1].sentIn >= phase[b]

\* Rank 0 has sent for phase 2 and for phase 4, and rank 1 has received
\* neither message yet.
C20_Witness ==
  /\ eager /\ p >= 5
  /\ Len(chan[<<0, 1>>]) = 2
  /\ chan[<<0, 1>>][1].sentIn = 2 /\ chan[<<0, 1>>][2].sentIn = 4
  /\ pc[0] = "xchg" /\ phase[0] = 4
  /\ pc[1] = "xchg" /\ phase[1] = 2 /\ ~recvDone[1]

\* C21: when Sort has returned on all processes no message is in flight and
\* every process has received as often as it has sent; a message waiting for
\* a process finds it before or inside the phase loop of the call the
\* message was sent in, never returned from it; two processes inside Sort
\* are in the same iteration of main; and a process starts a call of Sort
\* with every channel from it empty and, in a channel to it, only messages
\* that a process inside the same call has sent in that call.
C21_Quiescence ==
  /\ [](/\ AllSorted =>
            /\ \A a, b \in Ranks : chan[<<a, b>>] = <<>>
            /\ \A w \in Ranks : nsent[w] = nrecv[w] /\ ~recvDone[w]
        /\ \A a, b \in Ranks :
             chan[<<a, b>>] # <<>> =>
               /\ pc[b] \in {"barrier", "loop", "xchg"}
               /\ run[b] <= run[a]
        /\ \A v, w \in Ranks : (InSort(v) /\ InSort(w)) => run[v] = run[w])
  /\ [][\A w \in Ranks :
          (~InSort(w) /\ InSort(w)') =>
            \A v \in Ranks :
              /\ chan[<<w, v>>] = <<>>
              /\ chan[<<v, w>>] # <<>> =>
                   /\ InSort(v) /\ run[v] = run[w]
                   /\ Len(chan[<<v, w>>]) <= nsent[v]]_vars

\* The second call of Sort has returned on 3 or more processes that buffer
\* their sends, each having exchanged in it.
C21_Witness ==
  /\ AllSorted /\ eager /\ p >= 3 /\ local_n[0] >= 1
  /\ \A w \in Ranks : run[w] = 1 /\ nsent[w] >= 1 /\ nrecv[w] = nsent[w]
  /\ \A a, b \in Ranks : chan[<<a, b>>] = <<>>

\* C22: called on any two arrays of local_n >= 0 keys, ascending or not,
\* neither merge uses an index outside 0 .. local_n - 1 (no call ends the
\* process), each loop writes local_n elements of the scratch, which then
\* holds no element left as allocated, and the list is the scratch copied
\* back.
C22_MergeIndexBounds ==
  /\ pc[0] # "segv"
  /\ pc[0] = "m_low" =>
       LET r == Merge_low(seedList[0], temp_B[0], Fresh(local_n[0]), local_n[0])
       IN  ~r.oob /\ r.writes = local_n[0] /\ local_A[0] = r.A
  /\ pc[0] = "m_high" =>
       LET r == Merge_high(seedList[0], temp_B[0], Fresh(local_n[0]), local_n[0])
       IN  ~r.oob /\ r.writes = local_n[0] /\ local_A[0] = r.A
  /\ pc[0] \in {"m_low", "m_high"} =>
       /\ Len(temp_C[0]) = local_n[0]
       /\ \A i \in 1 .. local_n[0] : temp_C[0][i] # Indeterminate
       /\ local_A[0] = temp_C[0]
       /\ Len(local_A[0]) = local_n[0]

\* Merge_low has run on 3 unordered keys that are all below the received
\* ones: it has read its keys up to the last index and none of the others
\* beyond the first.
C22_Witness ==
  /\ pc[0] = "m_low" /\ local_n[0] = 3
  /\ ~IsSorted(seedList[0]) /\ ~IsSorted(temp_B[0])
  /\ \A i \in 1 .. 3 : seedList[0][i] < temp_B[0][1]
  /\ local_A[0] = seedList[0]

\* The process is back from its latest call of Check_for_error's MPI_Allreduce
Returned(w) == acount[w] >= 1 /\ pc[w] \notin {"mv_check1", "mv_check2"}

\* C23: processes that are back from the same call of Check_for_error have
\* the same ok; ok is 0 exactly when a process passed local_ok = 0 to that
\* call, and exactly then the process has exited, else it has gone on; only
\* rank 0 prints, once; while a process has exited every other process has
\* exited or is still inside the same call (none is in MPI_Allgather or
\* beyond), and when no step is left all have exited.
C23_CollectiveAgreement ==
  /\ \A w \in Ranks :
       Returned(w) =>
         /\ \A v \in Ranks :
              (Returned(v) /\ acount[v] = acount[w]) => ok[v] = ok[w]
         /\ ok[w] = 0 <=>
              \E v \in Ranks : acount[v] = acount[w] /\ local_ok[v] = 0
         /\ ok[w] = 0 <=> pc[w] = "exited"
  /\ reports <= 1
  /\ reports = 1 <=> pc[0] = "exited"
  /\ \A v \in Ranks :
       pc[v] = "exited" =>
         /\ \A w \in Ranks :
              /\ pc[w] \in {"exited", "mv_check1", "mv_check2"}
              /\ acount[w] = acount[v]
         /\ ~ENABLED NextMv => \A w \in Ranks : pc[w] = "exited"

\* In the second iteration the malloc in Mat_vect_mult failed on rank 1
\* alone, and all three processes have exited, rank 0 having printed.
C23_Witness ==
  /\ p = 3
  /\ \A w \in Ranks : pc[w] = "exited" /\ acount[w] = 4 /\ run[w] = 1
  /\ local_ok[0] = 1 /\ local_ok[1] = 0 /\ local_ok[2] = 1
  /\ reports = 1

====
